---- MODULE Spec2Model ----
(***************************************************************************)
(* A model of the weex-loader component compiler:                          *)
(*   - src/src/loader.js : the markup loader, its process-wide `elements`  *)
(*     map (the component reference graph) and the generated output;       *)
(*   - util.js (src/unnamed/part_001) : logWarn;                           *)
(*   - src/src/json.js : the card-literal loader.                          *)
(*                                                                         *)
(* Strings are sequences of one-character strings, so that toLowerCase,    *)
(* path.parse(..).name and the '.hml' suffix test are computed.  A path is *)
(* the base name followed by the extension token ".hml"; every unit lives  *)
(* in one directory.                                                       *)
(***************************************************************************)
EXTENDS Integers, Sequences, FiniteSets, TLC

VARIABLES elements,   \* util.js `elements`: the process-wide name/parent map
          requests,   \* module requests emitted so far (the host compiles them)
          last,       \* what the most recent loader call did
          ncompiles,  \* number of loader calls so far
          silentRegs, \* history: <<scope, name>> pairs registered without a diagnostic
          markup,     \* the <element> tags of each markup file on disk
          abilityType, \* process.env.abilityType
          deviceLevel, \* process.env.DEVICE_LEVEL
          logLevel,   \* process.env.logLevel
          logCall,    \* a call of logWarn: its list of logs and what it did
          jsonCall,   \* a call of the json.js loader: its input and what it did
          helperCall  \* a call of one helper function: its input and what it returned

loaderVars == <<elements, requests, last, ncompiles, silentRegs, markup, abilityType>>

vars == <<elements, requests, last, ncompiles, silentRegs, markup, abilityType, deviceLevel,
          logLevel, logCall, jsonCall, helperCall>>

----------------------------------------------------------------------------
(* Bounds *)

MaxCompiles == 4   \* loader calls per behaviour
MaxLogs == 2       \* entries of a list handed to logWarn
MaxLogLevel == 4   \* largest configured log level
MaxActions == 2    \* entries of an actions object
MaxProps == 3      \* items of a props list
MaxText == 4       \* lexical pieces of a config text
MaxTarget == 4     \* characters of a generated text
MaxChainCalls == 2 \* calls of getLoaderString per behaviour

----------------------------------------------------------------------------
(* Strings *)

LowerChar(c) ==
  CASE c = "X" -> "x"
    [] c = "P" -> "p"
    [] c = "S" -> "s"
    [] OTHER -> c

\* String.prototype.toLowerCase
toLowerCase(s) == [i \in DOMAIN s |-> LowerChar(s[i])]

EXT == ".hml"

NameX == <<"X">>
Namex == <<"x">>
NameParent == <<"p", "a", "r", "e", "n", "t">>
NameDiv == <<"d", "i", "v">>
NameGone == <<"g", "o", "n", "e">>

\* the markup files on disk: X.hml, parent.hml, div.hml
Files == {NameX \o <<EXT>>, NameParent \o <<EXT>>, NameDiv \o <<EXT>>}

\* sibling assets on disk (fs.existsSync of <base>.css / <base>.js)
CssFiles == {NameX \o <<EXT>>}
JsFiles == {NameX \o <<EXT>>, NameParent \o <<EXT>>}

\* path.parse(p).name / getNameByPath(p): the base name without extension
getNameByPath(p) == IF Len(p) > 0 /\ p[Len(p)] = EXT THEN SubSeq(p, 1, Len(p) - 1) ELSE p

\* src.match(/\.hml$/)
HasExt(src) == Len(src) > 0 /\ src[Len(src)] = EXT

\* src.match(/^(\/|\.)/)
IsRelative(src) == Len(src) > 0 /\ src[1] = "./"

\* path.join(path.dirname(resourcePath), src)
JoinPath(src) == IF IsRelative(src) THEN SubSeq(src, 2, Len(src)) ELSE src

\* the built-in element vocabulary (templater/component_validator)
isReservedTag(name) == name \in {NameDiv}

----------------------------------------------------------------------------
(* JavaScript values held in `elements` and in parentPath *)

Undefined == [t |-> "undefined", v |-> <<>>]
True == [t |-> "true", v |-> <<>>]
Str(s) == [t |-> "string", v |-> s]
Obj(k) == [t |-> "object", v |-> k]   \* the object stored at elements[k]

Truthy(val) == val.t # "undefined"

OBJECT_STR == <<"[object Object]">>
UNDEF_STR == <<"undefined">>
TRUE_STR == <<"true">>

\* String(val): property-key coercion and template-literal interpolation
JsString(val) ==
  CASE val.t = "string" -> val.v
    [] val.t = "object" -> OBJECT_STR
    [] val.t = "true" -> TRUE_STR
    [] OTHER -> UNDEF_STR

Keys == Files \cup {OBJECT_STR, UNDEF_STR, TRUE_STR}

PropKeys == {NameX, Namex, NameParent, NameDiv, NameGone}

NoProps == [k \in PropKeys |-> Undefined]

\* elements[key] as a value: the object, or undefined
GetObj(els, key) == IF els[key].def THEN Obj(key) ELSE Undefined

\* elements[key] = elements[key] || {}
Ensure(els, key) == IF els[key].def THEN els ELSE [els EXCEPT ![key] = [def |-> TRUE, props |-> NoProps]]

\* elements[key][prop] = val
SetProp(els, key, prop, val) == [els EXCEPT ![key].props[prop] = val]

----------------------------------------------------------------------------
(* util.js: logWarn *)

StartsWith(s, prefix) == Len(s) >= Len(prefix) /\ SubSeq(s, 1, Len(prefix)) = prefix

NOTE == <<"N", "O", "T", "E">>
WARN == <<"W", "A", "R", "N">>
ERROR == <<"E", "R", "R", "O", "R">>

\* a plausible slip: the Error branch gated like the Warn branch
LogOneWrongGate(level, acc, log) ==
  IF StartsWith(log.reason, NOTE) /\ level <= 1
    THEN [acc EXCEPT !.emitted = Append(@, [channel |-> "warning", reason |-> log.reason, pos |-> log.pos])]
  ELSE IF StartsWith(log.reason, WARN) /\ level <= 2
    THEN [acc EXCEPT !.emitted = Append(@, [channel |-> "warning", reason |-> log.reason, pos |-> log.pos])]
  ELSE IF StartsWith(log.reason, ERROR) /\ level <= 2
    THEN [flag |-> TRUE,
          emitted |-> Append(acc.emitted, [channel |-> "error", reason |-> log.reason, pos |-> log.pos])]
  ELSE acc

\* lines 62-87: the body of logs.forEach; pos is `log.line && log.column`
LogOne(level, acc, log) ==
  IF StartsWith(log.reason, NOTE) /\ level <= 1
    THEN [acc EXCEPT !.emitted = Append(@, [channel |-> "warning", reason |-> log.reason, pos |-> log.pos])]
  ELSE IF StartsWith(log.reason, WARN) /\ level <= 2
    THEN [acc EXCEPT !.emitted = Append(@, [channel |-> "warning", reason |-> log.reason, pos |-> log.pos])]
  ELSE IF StartsWith(log.reason, ERROR) /\ level <= 3
    THEN [flag |-> TRUE,
          emitted |-> Append(acc.emitted, [channel |-> "error", reason |-> log.reason, pos |-> log.pos])]
  ELSE acc

RECURSIVE LogEach(_, _, _, _)
LogEach(level, acc, logs, i) ==
  IF i > Len(logs) THEN acc
  ELSE LogEach(level, LogOne(level, acc, logs[i]), logs, i + 1)

\* logWarn(loader, logs); an unset logLevel compares like 0 in `logLevel > 0`
logWarn(level, logs) ==
  IF level > 0 /\ Len(logs) > 0
    THEN LogEach(level, [flag |-> FALSE, emitted |-> <<>>], logs, 1)
  ELSE [flag |-> FALSE, emitted |-> <<>>]

\* the reasons callers build: a severity word and the message
Reasons == {NOTE \o <<":">>, WARN \o <<"I", "N", "G", ":">>, ERROR \o <<":">>}

LogEntries == [reason : Reasons, pos : BOOLEAN]

LogLists == UNION {[1..n -> LogEntries] : n \in 0..MaxLogs}

NoLogCall == [done |-> FALSE, logs |-> <<>>, flag |-> FALSE, emitted |-> <<>>]

----------------------------------------------------------------------------
(* loader.js: diagnostics and generated output *)

NoName == <<>>

\* one entry of a list handed to logWarn; the severity is the prefix of reason
Diag(sev, kind, name) == [sev |-> sev, kind |-> kind, name |-> name]

\* one piece of generated code
Token(kind, name, src, parentPath) == [kind |-> kind, name |-> name, src |-> src, parentPath |-> parentPath]

Plain(kind) == Token(kind, NoName, <<>>, <<>>)

\* the build entries (_this._compilation.entries): every page is an entry
Entries == Files

\* checkEntry: a WARNING when the element's file is also a build entry
checkEntry(filePath, elementSrc) ==
  IF filePath \in Entries THEN <<Diag("WARNING", "entry", elementSrc)>> ELSE <<>>

\* a plausible slip: the collision is detected but not reported
ReserveSilently(els, diags, key, name) ==
  LET els1 == Ensure(els, key)
      collide == Truthy(els1[key].props[name])
  IN [els |-> IF collide THEN els1 ELSE SetProp(els1, key, name, True),
      diags |-> diags,
      collide |-> collide,
      seen |-> {k \in PropKeys : els1[key].props[k] = True}]

\* lines 473-481: check the element name against the scope and reserve it;
\* seen is the set of names reserved in the scope when the check is made
Reserve(els, diags, key, name) ==
  LET els1 == Ensure(els, key)
      collide == Truthy(els1[key].props[name])
  IN [els |-> IF collide THEN els1 ELSE SetProp(els1, key, name, True),
      diags |-> IF collide THEN Append(diags, Diag("ERROR", "collision", name)) ELSE diags,
      collide |-> collide,
      seen |-> {k \in PropKeys : els1[key].props[k] = True}]

\* one iteration of the for loop of loadPageCheckElementLength; st.stopped
\* records that the function has returned ''
CheckElement(st, element, parentPath) ==
  IF st.stopped THEN st
  ELSE IF element.src = <<>>
    THEN [st EXCEPT !.diags = Append(@, Diag("ERROR", "nosrc", NoName)),
                    !.out = <<>>, !.stopped = TRUE]
  ELSE
    LET src == IF HasExt(element.src) THEN element.src ELSE Append(element.src, EXT)
        filePath == JoinPath(src)
    IN IF filePath \notin Files /\ IsRelative(src)
         THEN [st EXCEPT !.diags = Append(@, Diag("ERROR", "missing", src)),
                         !.out = <<>>, !.stopped = TRUE]
       ELSE
         LET name0 == IF element.name = NoName THEN getNameByPath(filePath) ELSE element.name
             name == toLowerCase(name0)
             key == JsString(parentPath)
             rsv == Reserve(st.els, st.diags, key, name)
         IN [els |-> rsv.els,
             diags |-> rsv.diags \o checkEntry(filePath, element.src),
             out |-> Append(st.out, Token("element", name, src, JsString(parentPath))),
             regs |-> Append(st.regs, [scope |-> key, name |-> name, collided |-> rsv.collide,
                                       seen |-> rsv.seen]),
             stopped |-> FALSE]

RECURSIVE LoopElements(_, _, _, _)
LoopElements(st, frag, i, parentPath) ==
  IF i > Len(frag) THEN st
  ELSE LoopElements(CheckElement(st, frag[i], parentPath), frag, i + 1, parentPath)

\* loadPageCheckElementLength
loadPageCheckElementLength(els, frag, parentPath) ==
  LoopElements([els |-> els, diags |-> <<>>, out |-> <<>>, regs |-> <<>>, stopped |-> FALSE],
               frag, 1, parentPath)

\* loadPageFindCss / loadPageFindJs
loadPageFindCss(resourcePath) == IF resourcePath \in CssFiles THEN <<Plain("style")>> ELSE <<>>
loadPageFindJs(resourcePath) == IF resourcePath \in JsFiles THEN <<Plain("script")>> ELSE <<>>

\* loadPageCheckRich
loadPageCheckRich(name, isEntry) ==
  <<Token("define", name, <<>>, <<>>)>> \o
  (IF isEntry THEN <<Token("bootstrap", name, <<>>, <<>>)>> ELSE <<>>)

\* loadPageCheckLite
loadPageCheckLite == <<Plain("options")>>

\* loadPage of a .hml unit
loadPage(els, resourcePath, name, isEntry, frag, parentPath) ==
  LET st == loadPageCheckElementLength(els, frag, parentPath)
      out == st.out \o <<Plain("template")>> \o loadPageFindCss(resourcePath)
               \o loadPageFindJs(resourcePath)
               \o (IF deviceLevel = "rich" THEN loadPageCheckRich(name, isEntry)
                   ELSE loadPageCheckLite)
  IN [st EXCEPT !.out = out]

\* checkApp: a .hml unit is the application file only for the test runner
checkApp == abilityType = "testrunner"

\* lines 354-378 of loadApp: the wrapper of the application script
loadAppWrapper(name, isEntry) ==
  (IF deviceLevel \in {"rich", "card"}
     THEN <<Token("app_define", name, <<>>, <<>>)>>
          \o (IF isEntry THEN <<Token("app_bootstrap", name, <<>>, <<>>)>> ELSE <<>>)
   ELSE <<>>)
  \o (IF deviceLevel = "lite" THEN <<Plain("app_options")>> ELSE <<>>)

\* loadApp of a .hml unit
loadApp(resourcePath, name, isEntry) ==
  IF checkApp
    THEN (IF resourcePath \in CssFiles THEN <<Plain("app_style")>> ELSE <<>>)
         \o <<Plain("app_script")>>
         \o loadAppWrapper(name, isEntry)
  ELSE <<>>

\* lines 275-286 of loader(): record the unit and resolve its parentPath
Register(els, resourcePath, isEntry, name, parentPath0) ==
  LET els0 == Ensure(els, resourcePath)
  IN IF isEntry
       THEN [els |-> SetProp(els0, resourcePath, name, True), parentPath |-> parentPath0,
             grand |-> Undefined]
     ELSE
       LET els1 == SetProp(els0, resourcePath, NameParent, parentPath0)
           pkey == JsString(parentPath0)
       IN IF els1[pkey].def /\ Truthy(els1[pkey].props[NameParent])
            THEN LET anc == GetObj(els1, JsString(els1[pkey].props[NameParent]))
                 IN [els |-> SetProp(els1, resourcePath, NameParent, anc), parentPath |-> anc,
                     grand |-> els1[pkey].props[NameParent]]
          ELSE [els |-> els1, parentPath |-> parentPath0, grand |-> Undefined]

\* a plausible slip: the reserved-tag check without the ability-type test
ReservedRejectedAnyAbility(name) == isReservedTag(name)

\* line 287: the reserved-tag check of the unit's name
ReservedRejected(name) == isReservedTag(name) /\ abilityType = "page"

\* loader(source): the whole call for a markup unit
loader(els, resourcePath, isEntry, qName, qParent, frag) ==
  LET name == IF isEntry THEN getNameByPath(resourcePath)
              ELSE IF qName # NoName THEN qName ELSE getNameByPath(resourcePath)
      parentPath0 == IF qParent # <<>> THEN Str(qParent) ELSE Str(resourcePath)
      reg == Register(els, resourcePath, isEntry, name, parentPath0)
  IN IF ReservedRejected(name)
       THEN [els |-> reg.els, diags |-> <<Diag("ERROR", "reserved", name)>>, out |-> <<>>,
             regs |-> <<>>, stopped |-> FALSE, name |-> name, parentPath |-> reg.parentPath,
             grand |-> reg.grand, reserved |-> TRUE]
     ELSE LET st == loadPage(reg.els, resourcePath, name, isEntry, frag, reg.parentPath)
          IN [els |-> st.els, diags |-> st.diags,
              out |-> loadApp(resourcePath, name, isEntry) \o st.out, regs |-> st.regs,
              stopped |-> st.stopped, name |-> name, parentPath |-> reg.parentPath,
              grand |-> reg.grand, reserved |-> FALSE]

----------------------------------------------------------------------------
(* json.js: the card-literal loader.  The text steps before eval are not    *)
(* modelled here: an input is what eval makes of the rewritten text.        *)

\* JSON values, as JSON.parse(JSON.stringify(eval(..))) yields them
JV(t, n, s, items) == [t |-> t, n |-> n, s |-> s, items |-> items]
JUndef == JV("undefined", 0, <<>>, <<>>)
JNull == JV("null", 0, <<>>, <<>>)
JNum(n) == JV("number", n, <<>>, <<>>)
JStr(s) == JV("string", 0, s, <<>>)
JArr(items) == JV("array", 0, <<>>, items)
JObj(fields) == JV("object", 0, <<>>, fields)   \* fields: <<[k |-> key, v |-> value], ..>>
Fld(k, v) == [k |-> k, v |-> v]

\* Object.prototype.toString.call(v) === '[object Object]'
IsPlainObject(v) == v.t = "object"

Nullish(v) == v.t \in {"undefined", "null"}

\* typeof v
TypeOf(v) == IF v.t \in {"null", "array"} THEN "object" ELSE v.t

\* ToBoolean
JTruthy(v) ==
  CASE v.t \in {"undefined", "null"} -> FALSE
    [] v.t = "number" -> v.n # 0
    [] v.t = "string" -> v.s # <<>>
    [] OTHER -> TRUE

HasOwn(v, key) == v.t = "object" /\ \E i \in DOMAIN v.items : v.items[i].k = key

\* v[key] of a non-nullish value
Field(v, key) ==
  IF HasOwn(v, key)
    THEN v.items[CHOOSE i \in DOMAIN v.items : v.items[i].k = key].v
  ELSE JUndef

\* v[key] = val of an object
SetField(v, key, val) ==
  IF HasOwn(v, key)
    THEN [v EXCEPT !.items = [i \in DOMAIN v.items |->
                                IF v.items[i].k = key THEN Fld(key, val) ELSE v.items[i]]]
  ELSE [v EXCEPT !.items = Append(@, Fld(key, val))]

KEY_METHOD == <<"m", "e", "t", "h", "o", "d">>
KEY_DEFAULT == <<"d", "e", "f", "a", "u", "l", "t">>

\* a plausible slip: the warning is raised but the method is left as written
ActionEntryKeepCase(acc, i) ==
  IF acc.threw THEN acc
  ELSE LET e == acc.val.items[i].v
       IN IF Nullish(e) THEN [acc EXCEPT !.threw = TRUE]
          ELSE LET m == Field(e, KEY_METHOD)
               IN IF ~JTruthy(m) THEN acc
                  ELSE IF m.t = "string"
                    THEN IF toLowerCase(m.s) # m.s
                           THEN [acc EXCEPT !.diags = Append(@, Diag("WARNING", "method_upper", m.s))]
                         ELSE acc
                  ELSE [acc EXCEPT !.diags = Append(@, Diag("WARNING", "method_type", <<TypeOf(m)>>))]

\* lines 168-181: the body of Object.keys(actionsValue).forEach
ActionEntry(acc, i) ==
  IF acc.threw THEN acc
  ELSE LET e == acc.val.items[i].v
       IN IF Nullish(e) THEN [acc EXCEPT !.threw = TRUE]
          ELSE LET m == Field(e, KEY_METHOD)
               IN IF ~JTruthy(m) THEN acc
                  ELSE IF m.t = "string"
                    THEN IF toLowerCase(m.s) # m.s
                           THEN [acc EXCEPT
                                   !.diags = Append(@, Diag("WARNING", "method_upper", m.s)),
                                   !.val.items[i].v = SetField(e, KEY_METHOD, JStr(toLowerCase(m.s)))]
                         ELSE acc
                  ELSE [acc EXCEPT !.diags = Append(@, Diag("WARNING", "method_type", <<TypeOf(m)>>))]

RECURSIVE ActionEntries(_, _)
ActionEntries(acc, i) ==
  IF i > Len(acc.val.items) THEN acc ELSE ActionEntries(ActionEntry(acc, i), i + 1)

\* processActions(actionsValue, _this): the value returned, the entries handed
\* to logWarn, and whether a TypeError was thrown
processActions(actionsValue, diags) ==
  IF IsPlainObject(actionsValue)
    THEN ActionEntries([val |-> actionsValue, diags |-> diags, threw |-> FALSE], 1)
  ELSE IF JTruthy(actionsValue)
    THEN [val |-> actionsValue, diags |-> Append(diags, Diag("WARNING", "actions_type", NoName)),
          threw |-> FALSE]
  ELSE [val |-> actionsValue, diags |-> diags, threw |-> FALSE]

\* validateData(dataValue, _this)
validateData(dataValue, diags) ==
  IF JTruthy(dataValue) /\ ~IsPlainObject(dataValue)
    THEN [val |-> dataValue, diags |-> Append(diags, Diag("WARNING", "data_type", NoName)),
          threw |-> FALSE]
  ELSE [val |-> dataValue, diags |-> diags, threw |-> FALSE]

\* String(item) of a props array item
PropKey(item) ==
  CASE item.t = "string" -> item.s
    [] item.t = "number" -> <<ToString(item.n)>>
    [] item.t = "object" -> OBJECT_STR
    [] OTHER -> <<item.t>>

EmptyDefault == JObj(<<Fld(KEY_DEFAULT, JStr(<<>>))>>)

\* a plausible slip: the listed name is mapped to an empty object
PropsArrayItemNoDefault(acc, item) ==
  [val |-> SetField(acc.val, PropKey(item), JObj(<<>>)),
   diags |-> IF item.t # "string"
               THEN Append(acc.diags, Diag("WARNING", "props_item_type", <<TypeOf(item)>>))
             ELSE acc.diags,
   threw |-> FALSE]

\* lines 137-144: the body of propsValue.forEach for an array
PropsArrayItem(acc, item) ==
  [val |-> SetField(acc.val, PropKey(item), EmptyDefault),
   diags |-> IF item.t # "string"
               THEN Append(acc.diags, Diag("WARNING", "props_item_type", <<TypeOf(item)>>))
             ELSE acc.diags,
   threw |-> FALSE]

RECURSIVE PropsArray(_, _, _)
PropsArray(acc, items, i) ==
  IF i > Len(items) THEN acc ELSE PropsArray(PropsArrayItem(acc, items[i]), items, i + 1)

\* lines 147-156: the body of Object.keys(propsValue).forEach for an object
PropsObjectEntry(acc, i) ==
  IF acc.threw THEN acc
  ELSE LET e == acc.val.items[i].v
           d1 == IF ~IsPlainObject(e)
                   THEN Append(acc.diags, Diag("WARNING", "props_default_type", acc.val.items[i].k))
                 ELSE acc.diags
       IN IF Nullish(e) THEN [acc EXCEPT !.diags = d1, !.threw = TRUE]
          ELSE IF ~HasOwn(e, KEY_DEFAULT)
            THEN [acc EXCEPT !.diags = d1, !.val.items[i].v = EmptyDefault]
          ELSE [acc EXCEPT !.diags = d1]

RECURSIVE PropsObject(_, _)
PropsObject(acc, i) ==
  IF i > Len(acc.val.items) THEN acc ELSE PropsObject(PropsObjectEntry(acc, i), i + 1)

\* replacePropsArray(propsValue, _this)
replacePropsArray(propsValue, diags) ==
  IF ~JTruthy(propsValue) THEN [val |-> propsValue, diags |-> diags, threw |-> FALSE]
  ELSE IF propsValue.t = "array"
    THEN PropsArray([val |-> JObj(<<>>), diags |-> diags, threw |-> FALSE], propsValue.items, 1)
  ELSE IF IsPlainObject(propsValue)
    THEN PropsObject([val |-> propsValue, diags |-> diags, threw |-> FALSE], 1)
  ELSE [val |-> propsValue, diags |-> Append(diags, Diag("WARNING", "props_type", NoName)),
        threw |-> FALSE]

KEY_ACTIONS == <<"actions">>
KEY_DATA == <<"data">>
KEY_APIVERSION == <<"apiVersion">>
KEY_PROPS == <<"props">>
KEY_STYLES == <<"styles">>
KEY_TEMPLATE == <<"template">>
KEY_INIT == <<"init">>

\* one call of cardJsonPlugin.compileJson(compiler, type, filePath, content, elementName, elementType)
SinkCall(type, content, elementName, elementType) ==
  [type |-> type, content |-> content, elementName |-> elementName, elementType |-> elementType]

\* mkJsonFiles(_this).element: the query of the resource when some build entry
\* lies in another directory, else undefined (the empty string here)
mkJsonFiles(input) ==
  IF \E i \in DOMAIN input.sameDir : ~input.sameDir[i] THEN input.query ELSE <<>>

IsConfigExt(ext) == ext \in {".json", ".js"}
IsStyleExt(ext) == ext \in {".css", ".less", ".sass", ".scss"}

\* a plausible slip: the data section is validated but not handed to the sink
SectionWithoutData(acc, r, type, elementName, elementType) ==
  IF r.threw THEN [acc EXCEPT !.diags = r.diags, !.threw = TRUE]
  ELSE IF KEY_DATA \in {type, elementType} THEN [acc EXCEPT !.diags = r.diags]
  ELSE [acc EXCEPT !.diags = r.diags,
                   !.sink = Append(@, SinkCall(type, r.val, elementName, elementType))]

\* one section of a config asset: evaluate the argument, then call the sink
Section(acc, r, type, elementName, elementType) ==
  IF r.threw THEN [acc EXCEPT !.diags = r.diags, !.threw = TRUE]
  ELSE [acc EXCEPT !.diags = r.diags,
                   !.sink = Append(@, SinkCall(type, r.val, elementName, elementType))]

\* lines 76-110 of parseCard, after a successful eval; source is the value the
\* literal evaluates to, "undefined" when JSON.stringify returns undefined
Deliver(input) ==
  LET v == input.lit.val
      parseThrows == input.lit.kind = "undefined"
      element == mkJsonFiles(input)
      a0 == [diags |-> <<>>, sink |-> <<SinkCall(KEY_INIT, JUndef, <<>>, <<>>)>>, threw |-> FALSE]
      Thrown(acc) == [acc EXCEPT !.threw = TRUE]
  IN IF IsConfigExt(input.ext)
       THEN IF parseThrows \/ Nullish(v) THEN Thrown(a0)
            ELSE IF element # <<>>
              THEN LET a1 == Section(a0, processActions(Field(v, KEY_ACTIONS), a0.diags), element, element, KEY_ACTIONS)
                       a2 == IF a1.threw THEN a1 ELSE Section(a1, validateData(Field(v, KEY_DATA), a1.diags), element, element, KEY_DATA)
                       a3 == IF a2.threw THEN a2 ELSE Section(a2, validateData(Field(v, KEY_APIVERSION), a2.diags), element, element, KEY_APIVERSION)
                       a4 == IF a3.threw THEN a3 ELSE Section(a3, replacePropsArray(Field(v, KEY_PROPS), a3.diags), element, element, KEY_PROPS)
                   IN a4
            ELSE LET a1 == Section(a0, processActions(Field(v, KEY_ACTIONS), a0.diags), KEY_ACTIONS, KEY_ACTIONS, <<>>)
                     a2 == IF a1.threw THEN a1 ELSE Section(a1, validateData(Field(v, KEY_DATA), a1.diags), KEY_DATA, KEY_DATA, <<>>)
                     a3 == IF a2.threw THEN a2 ELSE Section(a2, validateData(Field(v, KEY_APIVERSION), a2.diags), KEY_APIVERSION, KEY_APIVERSION, <<>>)
                 IN a3
     ELSE IF IsStyleExt(input.ext) \/ input.ext = EXT
       THEN LET sec == IF input.ext = EXT THEN KEY_TEMPLATE ELSE KEY_STYLES
            IN IF parseThrows THEN Thrown(a0)
               ELSE IF element # <<>>
                 THEN [a0 EXCEPT !.sink = Append(@, SinkCall(element, v, element, sec))]
               ELSE [a0 EXCEPT !.sink = Append(@, SinkCall(sec, v, sec, <<>>))]
     ELSE a0

\* parseCard(_this, source)
parseCard(input) ==
  IF input.lit.kind = "throw"
    THEN [diags |-> <<>>, sink |-> <<>>, threw |-> TRUE]
  ELSE Deliver(input)

\* a plausible slip: the exception of parseCard is not caught
Rethrow(r, resourcePath) ==
  [ret |-> IF r.threw THEN "" ELSE "{}", diags |-> r.diags, sink |-> r.sink,
   threw |-> r.threw, escaped |-> r.threw]

\* lines 35-44: try { parseCard } catch (e) { logWarn(..); return '{}' } return '{}'
Catch(r, resourcePath) ==
  [ret |-> "{}",
   diags |-> IF r.threw THEN Append(r.diags, Diag("ERROR", "parse", resourcePath)) ELSE r.diags,
   sink |-> r.sink, threw |-> r.threw, escaped |-> FALSE]

\* module.exports of json.js
jsonLoader(input) ==
  IF deviceLevel = "card"
    THEN Catch(parseCard(input), input.path)
  ELSE [ret |-> "module.exports = source", diags |-> <<>>, sink |-> <<>>,
        threw |-> FALSE, escaped |-> FALSE]

\* the inputs
MethodVals == {JStr(<<"s">>), JStr(<<"S">>), JNum(5)}
ActionEntryVals == {JNull, JNum(1), JObj(<<>>)} \cup {JObj(<<Fld(KEY_METHOD, m)>>) : m \in MethodVals}
ActionKeys == [i \in 1..(MaxActions + 1) |-> <<"k", ToString(i)>>]
ActionObjects ==
  UNION {{JObj([i \in 1..n |-> Fld(ActionKeys[i], f[i])]) : f \in [1..n -> ActionEntryVals]} :
           n \in 0..MaxActions}
ActionsVals == {JUndef, JNum(1), JArr(<<JObj(<<Fld(KEY_METHOD, JStr(<<"S">>))>>)>>)} \cup ActionObjects
DataVals == {JUndef, JObj(<<>>), JArr(<<>>)}
ApiVals == {JUndef, JNum(9)}
PropA == <<"a">>
PropB == <<"b">>
PropsVals ==
  {JUndef, JNum(1), JArr(<<JStr(PropA)>>), JArr(<<JStr(PropA), JStr(PropB)>>),
   JArr(<<JStr(PropA), JNum(5)>>),
   JObj(<<Fld(PropA, EmptyDefault)>>), JObj(<<Fld(PropA, EmptyDefault), Fld(PropB, EmptyDefault)>>),
   JObj(<<Fld(PropA, JObj(<<>>))>>), JObj(<<Fld(PropA, JNull)>>), JObj(<<Fld(PropA, JStr(<<"s">>))>>)}

Lit(kind, val) == [kind |-> kind, val |-> val]
ConfigValues ==
  {JObj(<<Fld(KEY_ACTIONS, a), Fld(KEY_DATA, d), Fld(KEY_APIVERSION, v), Fld(KEY_PROPS, p)>>) :
     a \in ActionsVals, d \in DataVals, v \in ApiVals, p \in PropsVals}
ConfigLits == {Lit("throw", JUndef), Lit("undefined", JUndef), Lit("value", JNull),
               Lit("value", JNum(1))} \cup {Lit("value", c) : c \in ConfigValues}
OpaqueLits == {Lit("throw", JUndef), Lit("undefined", JUndef), Lit("value", JObj(<<>>))}

CardPath(ext) == <<"c", ext>>
JsonInput(ext, lit, sameDir, query) ==
  [path |-> CardPath(ext), ext |-> ext, lit |-> lit, sameDir |-> sameDir, query |-> query]
SameDirs == {<<TRUE>>, <<FALSE>>, <<TRUE, FALSE>>}
JsonInputs ==
  {JsonInput(".json", l, sd, <<"c">>) : l \in ConfigLits, sd \in SameDirs}
  \cup {JsonInput(e, l, sd, <<"c">>) : e \in {".js", ".css", EXT}, l \in OpaqueLits, sd \in SameDirs}

NoJsonCall ==
  [done |-> FALSE, input |-> JsonInput(".json", Lit("throw", JUndef), <<TRUE>>, <<>>),
   ret |-> "", diags |-> <<>>, sink |-> <<>>, threw |-> FALSE, escaped |-> FALSE]

----------------------------------------------------------------------------
(* json.js: the rewriting of config text before eval (lines 56-74).  Text  *)
(* is a sequence of characters; the regular expressions are matched as the  *)
(* JavaScript engine matches them: leftmost, greedy, `.` stops at a line    *)
(* terminator.                                                              *)

DQ == "\""
SQ == "'"
NL == "\n"
THIS_DOT == <<"t", "h", "i", "s", ".">>
EVENT_DOT == <<"$", "e", "v", "e", "n", "t", ".">>

\* \w and \s on the characters of the modelled texts
IsWord(c) == c \in {"t", "h", "i", "s", "e", "v", "n", "c", "d"}
IsSpace(c) == c \in {" ", NL}

MatchAt(s, i, pat) == i + Len(pat) - 1 <= Len(s) /\ SubSeq(s, i, i + Len(pat) - 1) = pat

\* the last index that `.*` started at i can reach
LineEnd(s, i) ==
  IF \E j \in i..Len(s) : s[j] = NL
    THEN (CHOOSE j \in i..Len(s) : s[j] = NL /\ \A k \in i..(j - 1) : s[k] # NL) - 1
  ELSE Len(s)

\* templater/bind transCardArray, on an expression without array brackets
transCardArray(expr) == expr

\* resource-reference-script, on a text without resource references
ResourceReferenceParsing(source) == source

\* .replace(/this\./g, '')
RECURSIVE RemoveThis(_)
RemoveThis(s) ==
  IF s = <<>> THEN <<>>
  ELSE IF MatchAt(s, 1, THIS_DOT) THEN RemoveThis(SubSeq(s, Len(THIS_DOT) + 1, Len(s)))
  ELSE <<s[1]>> \o RemoveThis(Tail(s))

EndsWith(s, suffix) == Len(s) >= Len(suffix) /\ SubSeq(s, Len(s) - Len(suffix) + 1, Len(s)) = suffix

\* a plausible slip: the comma after the expression is dropped
RewriteThisItemNoComma(item) ==
  IF EndsWith(item, <<DQ>>) \/ EndsWith(item, <<SQ>>) \/ EndsWith(item, <<DQ, ",">>)
     \/ EndsWith(item, <<SQ, ",">>)
    THEN item
  ELSE IF EndsWith(item, <<",">>)
    THEN RemoveThis(<<DQ, "{", "{">> \o transCardArray(SubSeq(item, 1, Len(item) - 1))
                    \o <<"}", "}", DQ>>)
  ELSE RemoveThis(<<DQ, "{", "{">> \o transCardArray(item) \o <<"}", "}", DQ>>)

\* lines 64-73: the replacement of one match of REG_THIS
RewriteThisItem(item) ==
  IF EndsWith(item, <<DQ>>) \/ EndsWith(item, <<SQ>>) \/ EndsWith(item, <<DQ, ",">>)
     \/ EndsWith(item, <<SQ, ",">>)
    THEN item
  ELSE IF EndsWith(item, <<",">>)
    THEN RemoveThis(<<DQ, "{", "{">> \o transCardArray(SubSeq(item, 1, Len(item) - 1))
                    \o <<"}", "}", DQ, ",">>)
  ELSE RemoveThis(<<DQ, "{", "{">> \o transCardArray(item) \o <<"}", "}", DQ>>)

\* source.replace(REG_THIS, ..) with REG_THIS = /this\..*/g
RECURSIVE ReplaceThis(_, _)
ReplaceThis(s, from) ==
  IF from > Len(s) THEN <<>>
  ELSE IF MatchAt(s, from, THIS_DOT)
    THEN LET e == LineEnd(s, from + Len(THIS_DOT))
         IN RewriteThisItem(SubSeq(s, from, e)) \o ReplaceThis(s, e + 1)
  ELSE <<s[from]>> \o ReplaceThis(s, from + 1)

\* the index after \s* started at i
RECURSIVE SkipSpace(_, _)
SkipSpace(s, i) == IF i <= Len(s) /\ IsSpace(s[i]) THEN SkipSpace(s, i + 1) ELSE i

\* the end of a match of q\s*\$event\..+q at i, or 0
EventStringEnd(s, i, q) ==
  IF s[i] # q THEN 0
  ELSE LET j == SkipSpace(s, i + 1)
           k == j + Len(EVENT_DOT)
           cs == {c \in (k + 1)..LineEnd(s, k) : s[c] = q}
       IN IF MatchAt(s, j, EVENT_DOT) /\ cs # {}
            THEN CHOOSE c \in cs : \A c2 \in cs : c2 <= c
          ELSE 0

\* a plausible slip: the quotes of an event literal are kept
ReplaceEventStringKeep(s, from) == s

\* source.replace(REG_EVENT_STRING, item => item.slice(1, -1))
RECURSIVE ReplaceEventString(_, _)
ReplaceEventString(s, from) ==
  IF from > Len(s) THEN <<>>
  ELSE LET e1 == EventStringEnd(s, from, DQ)
           e2 == EventStringEnd(s, from, SQ)
           e == IF e1 > 0 THEN e1 ELSE e2
       IN IF e > 0
            THEN SubSeq(s, from + 1, e - 1) \o ReplaceEventString(s, e + 1)
          ELSE <<s[from]>> \o ReplaceEventString(s, from + 1)

\* the end of the run of \w started at i
RECURSIVE WordEnd(_, _)
WordEnd(s, i) == IF i + 1 <= Len(s) /\ IsWord(s[i + 1]) THEN WordEnd(s, i + 1) ELSE i

\* source.replace(REG_EVENT, item => '"' + item + '"') with REG_EVENT = /\$event\.[\w]+/g
RECURSIVE ReplaceEvent(_, _)
ReplaceEvent(s, from) ==
  IF from > Len(s) THEN <<>>
  ELSE LET k == from + Len(EVENT_DOT)
       IN IF MatchAt(s, from, EVENT_DOT) /\ k <= Len(s) /\ IsWord(s[k])
            THEN LET e == WordEnd(s, k)
                 IN <<DQ>> \o SubSeq(s, from, e) \o <<DQ>> \o ReplaceEvent(s, e + 1)
          ELSE <<s[from]>> \o ReplaceEvent(s, from + 1)

\* lines 56-74 of parseCard for a .json or .js resource
rewrite(source) ==
  ReplaceThis(ReplaceEvent(ReplaceEventString(ResourceReferenceParsing(source), 1), 1), 1)

\* the lexical pieces the texts are made of
Pieces == {THIS_DOT, EVENT_DOT, <<"c">>, <<"d">>, <<DQ>>, <<SQ>>, <<",">>, <<" ">>, <<"}">>, <<NL>>}
PieceLists == UNION {[1..n -> Pieces] : n \in 0..MaxText}

RECURSIVE Flatten(_)
Flatten(l) == IF l = <<>> THEN <<>> ELSE l[1] \o Flatten(Tail(l))

----------------------------------------------------------------------------
(* util.js: consumeMap and splitSourceLine *)

CR == "\r"

\* source.split(/\r?\n/g): the lines of a text, the last one included
RECURSIVE SplitFrom(_, _, _)
SplitFrom(source, i, cur) ==
  IF i > Len(source) THEN <<cur>>
  ELSE IF source[i] = NL THEN <<cur>> \o SplitFrom(source, i + 1, <<>>)
  ELSE IF source[i] = CR /\ i + 1 <= Len(source) /\ source[i + 1] = NL
    THEN <<cur>> \o SplitFrom(source, i + 2, <<>>)
  ELSE SplitFrom(source, i + 1, Append(cur, source[i]))

splitSourceLine(source) == SplitFrom(source, 1, <<>>)

\* what SourceMapConsumer.originalPositionFor answers: no source when the
\* position has no mapping
NoPos == [source |-> "", line |-> 0, column |-> 0]
PosVals == {NoPos, [source |-> "a.hml", line |-> 1, column |-> 0],
            [source |-> "a.hml", line |-> 2, column |-> 3]}

\* the consumed map: its answer for (line, column 0), nothing past its domain
originalPositionFor(smc, line) == IF line \in DOMAIN smc THEN smc[line] ELSE NoPos

MapKey(line, column) == <<"line-", ToString(line), "-column-", ToString(column)>>

NoMap == [source |-> "", original |-> <<>>, generated |-> <<>>, mapping |-> {}]

\* a plausible slip: the consumed map is asked with the 0-based index
ConsumeLineZeroBased(acc, smc, index) ==
  LET column == 0
      line == index + 1
      pos == originalPositionFor(smc, index)
  IN IF pos.source # ""
       THEN [source |-> pos.source,
             original |-> Append(acc.original, [line |-> pos.line, column |-> pos.column]),
             generated |-> Append(acc.generated, [line |-> line, column |-> column]),
             mapping |-> {m \in acc.mapping : m.key # MapKey(line, column)}
                           \cup {[key |-> MapKey(line, column), line |-> pos.line,
                                  column |-> pos.column]}]
     ELSE acc

\* lines 165-189: the body of forEach((input, line) => ..), index counted from 0
ConsumeLine(acc, smc, index) ==
  LET column == 0
      line == index + 1
      pos == originalPositionFor(smc, line)
  IN IF pos.source # ""
       THEN [source |-> pos.source,
             original |-> Append(acc.original, [line |-> pos.line, column |-> pos.column]),
             generated |-> Append(acc.generated, [line |-> line, column |-> column]),
             mapping |-> {m \in acc.mapping : m.key # MapKey(line, column)}
                           \cup {[key |-> MapKey(line, column), line |-> pos.line,
                                  column |-> pos.column]}]
     ELSE acc

RECURSIVE ConsumeLines(_, _, _, _)
ConsumeLines(acc, smc, lines, index) ==
  IF index >= Len(lines) THEN acc
  ELSE ConsumeLines(ConsumeLine(acc, smc, index), smc, lines, index + 1)

\* consumeMap(loader, target, map)
consumeMap(target, smc) == ConsumeLines(NoMap, smc, splitSourceLine(target), 0)

Targets == UNION {[1..n -> {"a", CR, NL}] : n \in 0..MaxTarget}
ConsumedMaps == [1..3 -> PosVals]

----------------------------------------------------------------------------
(* loader.js: getLoaderString and the loader strings; util.js:              *)
(* stringifyLoaders.  A loader string is the sequence of its pieces.        *)

\* a loader given as a string, and one given as { name, query }
StringLoader(s) == [str |-> TRUE, name |-> s, query |-> <<>>]
ObjectLoader(name, query) == [str |-> FALSE, name |-> name, query |-> query]
QueryField(k, v) == [k |-> k, v |-> v]

\* util.js loadBabelModule: the resolved directory of an installed module,
\* the module name itself when require.resolve throws
InstalledModules == {"babel-loader"}
loadBabelModule(moduleName) ==
  IF moduleName \in InstalledModules THEN "node_modules/" \o moduleName ELSE moduleName

\* const defaultLoaders
defaultLoaders ==
  [none |-> "", main |-> "loader.js", template |-> "template.js", style |-> "style.js",
   script |-> "script.js", json |-> "json.js", babel |-> loadBabelModule("babel-loader"),
   manifest |-> "manifest-loader.js", resourceReferenceScript |-> "resource-reference-script.js"]

\* lines 113-127 of stringifyLoaders: the query entries that are not null
RECURSIVE QueryParts(_, _)
QueryParts(query, i) ==
  IF i > Len(query) THEN <<>>
  ELSE LET v == query[i].v
           rest == QueryParts(query, i + 1)
           part == IF v = True THEN <<query[i].k>> ELSE <<query[i].k, "=", v.v>>
       IN IF v = Undefined THEN rest
          ELSE IF rest = <<>> THEN part ELSE part \o <<"&">> \o rest

StringifyLoader(entry) ==
  IF entry.str THEN <<entry.name>>
  ELSE LET parts == QueryParts(entry.query, 1)
       IN IF parts = <<>> THEN <<entry.name>> ELSE <<entry.name, "?">> \o parts

\* util.js stringifyLoaders(loaders)
RECURSIVE stringifyLoaders(_)
stringifyLoaders(loaders) ==
  IF loaders = <<>> THEN <<>>
  ELSE IF Len(loaders) = 1 THEN StringifyLoader(loaders[1])
  ELSE StringifyLoader(loaders[1]) \o <<"!">> \o stringifyLoaders(Tail(loaders))

\* the custom languages of the build configuration
customLang == [ts |-> <<"ts-loader">>]
Langs == {"", "ts", "less"}
ChainConfig(lang, source, app) == [lang |-> lang, source |-> source, app |-> app]
ChainConfigs ==
  {ChainConfig(l, "", FALSE) : l \in Langs} \cup {ChainConfig(l, "app.js", TRUE) : l \in {"", "ts"}}
    \cup {ChainConfig("", "", TRUE)}
ChainTypes == {"main", "element", "template", "style", "script", "config", "data"}

\* loadCustomLoader(config): "" stands for undefined
loadCustomLoader(config) ==
  IF config.lang # "" /\ config.lang \in DOMAIN customLang
    THEN loadBabelModule(customLang[config.lang][1])
  ELSE ""

mainLoaderString == stringifyLoaders(<<ObjectLoader(defaultLoaders.main, <<>>)>>)

\* a plausible slip: the element flag follows the component graph
elementLoaderStringOfGraph(config) ==
  stringifyLoaders(<<ObjectLoader(defaultLoaders.main,
     <<QueryField("element", IF ncompiles > 0 THEN Undefined ELSE True)>>)>>)

elementLoaderString(config) ==
  stringifyLoaders(<<ObjectLoader(defaultLoaders.main,
     <<QueryField("element", IF config.source # "" THEN Undefined ELSE True)>>)>>)

WithCustom(loaders, customLoader) ==
  IF customLoader # "" THEN Append(loaders, StringLoader(customLoader)) ELSE loaders

templateLoaderString(config, customLoader) ==
  stringifyLoaders(WithCustom(<<ObjectLoader(defaultLoaders.json, <<>>),
                                ObjectLoader(defaultLoaders.template, <<>>)>>, customLoader))

styleLoaderString(config, customLoader) ==
  stringifyLoaders(WithCustom(<<ObjectLoader(defaultLoaders.json, <<>>),
                                ObjectLoader(defaultLoaders.style, <<>>)>>, customLoader))

scriptLoaderString(config, customLoader, manifestExists) ==
  LET isTargets == <<QueryField("extends", Str("../babel.config.js")),
                     QueryField("targets", IF deviceLevel = "rich" THEN Str("node 8") ELSE Undefined)>>
      l1 == IF customLoader # ""
              THEN <<ObjectLoader(defaultLoaders.script, <<>>), StringLoader(customLoader)>>
            ELSE <<ObjectLoader(defaultLoaders.script, <<>>),
                   ObjectLoader(defaultLoaders.babel, isTargets),
                   ObjectLoader(defaultLoaders.resourceReferenceScript, <<>>)>>
      l2 == IF config.app /\ abilityType = "page" /\ manifestExists
              THEN Append(l1, ObjectLoader(defaultLoaders.manifest,
                     <<QueryField("path", IF config.source = "" THEN Undefined ELSE Str(config.source))>>))
            ELSE l1
  IN stringifyLoaders(l2)

configLoaderString(config) == stringifyLoaders(<<ObjectLoader(defaultLoaders.json, <<>>)>>)

dataLoaderString(config) == stringifyLoaders(<<ObjectLoader(defaultLoaders.json, <<>>)>>)

\* getLoaderString(type, config)
getLoaderString(type, config, manifestExists) ==
  LET customLoader == loadCustomLoader(config)
  IN CASE type = "main" -> mainLoaderString
       [] type = "element" -> elementLoaderString(config)
       [] type = "template" -> templateLoaderString(config, customLoader)
       [] type = "style" -> styleLoaderString(config, customLoader)
       [] type = "script" -> scriptLoaderString(config, customLoader, manifestExists)
       [] type = "config" -> configLoaderString(config)
       [] type = "data" -> dataLoaderString(config)

\* no helper call is pending
NoHelperCall == [op |-> "none"]

----------------------------------------------------------------------------
(* The loader as a state machine: the host compiles build entries and the   *)
(* module requests that earlier compilations emitted, in any order.         *)

\* <element> tags, as parseFragment returns them
Tag(name, src) == [name |-> name, src |-> src]
TagX == Tag(NoName, <<"./">> \o NameX)                       \* x, X.hml
TagUpper == Tag(NameX, <<"./">> \o NameParent \o <<EXT>>)    \* name="X", parent.hml
TagParent == Tag(NoName, <<"./">> \o NameParent \o <<EXT>>)  \* parent, parent.hml
TagDiv == Tag(NoName, <<"./">> \o NameDiv)                   \* div, div.hml
TagGone == Tag(NoName, <<"./">> \o NameGone)                 \* no such file
TagBare == Tag(NoName, NameGone)                             \* no such file, bare path
TagNoSrc == Tag(NoName, <<>>)                                \* no src attribute

\* the markup a file on disk may hold
Markups == {<<>>, <<TagX>>, <<TagParent>>, <<TagUpper, TagDiv>>, <<TagUpper, TagGone>>,
            <<TagBare, TagNoSrc>>}

NoRequest == [path |-> <<>>, name |-> NoName, parentPath |-> <<>>, entry |-> FALSE]

\* the requests webpack resolves out of the generated code of one call
RequestsOf(out, isEntry) ==
  {[path |-> JoinPath(out[i].src), name |-> out[i].name,
    parentPath |-> out[i].parentPath, entry |-> isEntry] :
     i \in {j \in DOMAIN out : out[j].kind = "element" /\ JoinPath(out[j].src) \in Files}}

\* the registrations of one call that passed without a diagnostic
SilentOf(regs) == {<<regs[i].scope, regs[i].name>> : i \in {j \in DOMAIN regs : ~regs[j].collided}}

NoLast ==
  [op |-> "none", path |-> <<>>, req |-> NoRequest, name |-> NoName,
   parentPath |-> Undefined, grand |-> Undefined, diags |-> <<>>, out |-> <<>>,
   regs |-> <<>>, stopped |-> FALSE, reserved |-> FALSE]

Record(op, path, req, frag, r) ==
  [op |-> op, path |-> path, req |-> req, name |-> r.name,
   parentPath |-> r.parentPath, grand |-> r.grand, diags |-> r.diags, out |-> r.out,
   regs |-> r.regs, stopped |-> r.stopped, reserved |-> r.reserved]

\* the state before any call of the markup loader
LoaderIdle ==
  /\ elements = [k \in Keys |-> [def |-> FALSE, props |-> NoProps]]
  /\ requests = {}
  /\ last = NoLast
  /\ ncompiles = 0
  /\ silentRegs = {}

Init ==
  /\ logLevel = 1
  /\ logCall = NoLogCall
  /\ jsonCall = NoJsonCall
  /\ helperCall = NoHelperCall
  /\ elements = [k \in Keys |-> [def |-> FALSE, props |-> NoProps]]
  /\ requests = {}
  /\ last = NoLast
  /\ ncompiles = 0
  /\ silentRegs = {}
  /\ markup \in [Files -> Markups]
  /\ abilityType \in {"page", "form"}
  /\ deviceLevel \in {"rich", "lite", "card"}

\* loader() called for <path>?entry
CompileEntry ==
  /\ ncompiles < MaxCompiles
  /\ \E path \in Entries :
       LET frag == markup[path]
           r == loader(elements, path, TRUE, NoName, <<>>, frag)
       IN /\ elements' = r.els
          /\ requests' = requests \cup RequestsOf(r.out, TRUE)
          /\ last' = Record("entry", path, NoRequest, frag, r)
          /\ silentRegs' = silentRegs \cup SilentOf(r.regs)
  /\ ncompiles' = ncompiles + 1
  /\ UNCHANGED <<markup, abilityType, deviceLevel, logLevel, logCall, jsonCall, helperCall>>

\* loader() called for <src>?name=<name>&parentPath=<parentPath>
CompileChild ==
  /\ ncompiles < MaxCompiles
  /\ \E req \in requests :
       LET frag == markup[req.path]
           r == loader(elements, req.path, FALSE, req.name, req.parentPath, frag)
       IN /\ elements' = r.els
          /\ requests' = requests \cup RequestsOf(r.out, FALSE)
          /\ last' = Record("child", req.path, req, frag, r)
          /\ silentRegs' = silentRegs \cup SilentOf(r.regs)
  /\ ncompiles' = ncompiles + 1
  /\ UNCHANGED <<markup, abilityType, deviceLevel, logLevel, logCall, jsonCall, helperCall>>

Next == CompileEntry \/ CompileChild

Spec == Init /\ [][Next]_vars

----------------------------------------------------------------------------
(* Properties of the component reference graph and of the markup loader *)

Compiled == last.op # "none"

\* the tags of the unit compiled last
LastFrag == IF Compiled THEN markup[last.path] ELSE <<>>

\* the source path the loader derives from a tag
SrcOf(tag) == IF HasExt(tag.src) THEN tag.src ELSE Append(tag.src, EXT)

\* the tag points at a relative or rooted source that is not on disk
MissingSource(tag) == tag.src # <<>> /\ IsRelative(tag.src) /\ JoinPath(SrcOf(tag)) \notin Files

\* the tag passes the src checks of the loader
Accepted(tag) == tag.src # <<>> /\ ~MissingSource(tag)

ElementTokens(out) == {i \in DOMAIN out : out[i].kind = "element"}

HasToken(out, kind) == \E i \in DOMAIN out : out[i].kind = kind

HasDiag(sev, kind, name) ==
  \E i \in DOMAIN last.diags : last.diags[i] = Diag(sev, kind, name)

\* C1: an entry A includes B under the name n and B includes an element under
\* the same name n: compiling A and then B reports a collision Error for that
\* element, checked in A's scope.
C1_NameFlattening ==
  (last.op = "child" /\ last.req.entry /\ last.req.parentPath # last.path) =>
    \A i \in DOMAIN last.regs :
      last.regs[i].name = last.req.name =>
        /\ last.regs[i].scope = last.req.parentPath
        /\ last.regs[i].collided
        /\ HasDiag("ERROR", "collision", last.regs[i].name)

\* C2: a registration of a name that equals, ignoring case, a name already
\* reserved in the same scope (an entry's own name or an element name) is
\* reported as a collision.
C2_CaseInsensitive ==
  \A i \in DOMAIN last.regs :
    (\E k \in last.regs[i].seen : toLowerCase(k) = toLowerCase(last.regs[i].name)) =>
      last.regs[i].collided

\* C3: a non-entry unit whose immediate parent P has a recorded parent G gets
\* G's path as its recorded parent, as the scope of its collision checks and as
\* the parentPath handed to its own elements.
C3_EffectiveParentIsPath ==
  (last.op = "child" /\ last.grand.t = "string" /\ last.grand.v \in Files
     /\ last.req.parentPath # last.path) =>
    /\ last.parentPath = last.grand
    /\ elements[last.path].props[NameParent] = last.grand
    /\ \A i \in DOMAIN last.regs : last.regs[i].scope = last.grand.v
    /\ \A i \in ElementTokens(last.out) : last.out[i].parentPath = last.grand.v

\* C4: a colliding element name gives an Error diagnostic, stays reserved in
\* the scope and does not abort the unit: the references of the colliding and
\* of the later elements, the unit's template, style and script references and
\* its wrapper are emitted as without the collision.
C4_CollisionPolicy ==
  \A i \in DOMAIN last.regs :
    last.regs[i].collided =>
      /\ HasDiag("ERROR", "collision", last.regs[i].name)
      /\ Truthy(elements[last.regs[i].scope].props[last.regs[i].name])
      /\ HasToken(last.out, "template")
      /\ HasToken(last.out, "style") <=> last.path \in CssFiles
      /\ HasToken(last.out, "script") <=> last.path \in JsFiles
      /\ HasToken(last.out, "define") \/ HasToken(last.out, "options")
      /\ (\A j \in DOMAIN LastFrag : Accepted(LastFrag[j])) =>
           /\ Len(last.regs) = Len(LastFrag)
           /\ \A j \in DOMAIN last.regs :
                /\ last.out[j].kind = "element"
                /\ last.out[j].name = last.regs[j].name

\* C4 witness: a collision on an element that is followed by a later element
C4_Witness ==
  \E i \in DOMAIN last.regs :
    /\ last.regs[i].collided
    /\ i < Len(LastFrag)
    /\ \A j \in DOMAIN LastFrag : Accepted(LastFrag[j])

\* C5: of the registrations of one name in one scope, only the first passes
\* without a diagnostic; every later one reports a collision.
C5_CheckAndReserveAtomic ==
  [][\A i \in DOMAIN last'.regs :
       <<last'.regs[i].scope, last'.regs[i].name>> \in silentRegs => last'.regs[i].collided]_vars

\* C7: under the page ability type a unit named after a reserved tag compiles
\* to empty output with exactly one Error diagnostic; under any other ability
\* type the name is not checked.
C7_ReservedName ==
  (Compiled /\ isReservedTag(last.name)) =>
    IF abilityType = "page"
      THEN /\ last.out = <<>>
           /\ Len(last.diags) = 1
           /\ last.diags[1].sev = "ERROR"
      ELSE /\ ~HasDiag("ERROR", "reserved", last.name)
           /\ HasToken(last.out, "template")

\* C7 witness: a page-ability unit named "div" has been compiled
C7_Witness == Compiled /\ last.name = NameDiv /\ abilityType = "page"

\* C8: a reference to a custom element whose relative or rooted source does not
\* exist gives an Error diagnostic and empty generated output.
C8_MissingSourceFatal ==
  (Compiled /\ \E j \in DOMAIN LastFrag : MissingSource(LastFrag[j])) =>
    /\ \E i \in DOMAIN last.diags : last.diags[i].sev = "ERROR"
    /\ last.out = <<>>

----------------------------------------------------------------------------
(* logWarn as a state machine, and its properties *)

\* nothing else than logWarn runs in this specification
InitLog ==
  /\ LoaderIdle
  /\ markup = [f \in Files |-> <<>>]
  /\ abilityType = "page"
  /\ deviceLevel = "rich"
  /\ jsonCall = NoJsonCall
  /\ helperCall = NoHelperCall
  /\ logLevel \in 0..MaxLogLevel
  /\ logCall \in {[done |-> FALSE, logs |-> l, flag |-> FALSE, emitted |-> <<>>] : l \in LogLists}

\* one call of logWarn with the pending list
CallLogWarn ==
  /\ ~logCall.done
  /\ LET r == logWarn(logLevel, logCall.logs)
     IN logCall' = [done |-> TRUE, logs |-> logCall.logs, flag |-> r.flag, emitted |-> r.emitted]
  /\ UNCHANGED <<loaderVars, deviceLevel, logLevel, jsonCall, helperCall>>

NextLog == CallLogWarn

SpecLog == InitLog /\ [][NextLog]_vars

HasError(logs) == \E i \in DOMAIN logs : StartsWith(logs[i].reason, ERROR)

\* C6 as stated: for every log level the flag is true exactly when the list
\* holds an Error entry.
C6_FlagIgnoresLevel == logCall.done => (logCall.flag <=> HasError(logCall.logs))

\* C6 amended: the flag is true exactly when the list holds an Error entry and
\* the log level is 1, 2 or 3; filtering Note and Warn entries does not change it.
C6_ErrorGating ==
  logCall.done => (logCall.flag <=> (HasError(logCall.logs) /\ logLevel \in 1..3))

\* C6 witness: at level 3 a Note entry is filtered and an Error entry sets the flag
C6_Witness ==
  /\ logCall.done /\ logLevel = 3 /\ logCall.flag
  /\ \E i \in DOMAIN logCall.logs : StartsWith(logCall.logs[i].reason, NOTE)
  /\ Len(logCall.emitted) < Len(logCall.logs)

----------------------------------------------------------------------------
(* The card-literal loader as a state machine, and its properties *)

\* nothing else than the json.js loader runs in this specification
InitJson ==
  /\ LoaderIdle
  /\ markup = [f \in Files |-> <<>>]
  /\ abilityType = "page"
  /\ deviceLevel \in {"rich", "lite", "card"}
  /\ logLevel = 1
  /\ logCall = NoLogCall
  /\ jsonCall \in {[NoJsonCall EXCEPT !.input = i] : i \in JsonInputs}
  /\ helperCall = NoHelperCall

\* one call of the json.js loader with the pending input
CallJsonLoader ==
  /\ ~jsonCall.done
  /\ LET r == jsonLoader(jsonCall.input)
     IN jsonCall' = [done |-> TRUE, input |-> jsonCall.input, ret |-> r.ret, diags |-> r.diags,
                     sink |-> r.sink, threw |-> r.threw, escaped |-> r.escaped]
  /\ UNCHANGED <<loaderVars, deviceLevel, logLevel, logCall, helperCall>>

NextJson == CallJsonLoader

SpecJson == InitJson /\ [][NextJson]_vars

CardDone == jsonCall.done /\ deviceLevel = "card"

\* C9: in Card mode the loader never throws to the host; when the evaluation
\* of the literal fails it hands exactly one Error diagnostic naming the file
\* to logWarn and returns '{}'.
C9_LiteralFailuresCaught ==
  CardDone =>
    /\ ~jsonCall.escaped
    /\ jsonCall.ret = "{}"
    /\ jsonCall.input.lit.kind = "throw" =>
         jsonCall.diags = <<Diag("ERROR", "parse", jsonCall.input.path)>>

\* C9 witness: the evaluation of a card literal has failed
C9_Witness == CardDone /\ jsonCall.input.lit.kind = "throw" /\ jsonCall.threw

\* the actions object of the input and the actions section handed to the sink
InputActions == Field(jsonCall.input.lit.val, KEY_ACTIONS)
ActionsDelivered == {i \in DOMAIN jsonCall.sink : KEY_ACTIONS \in {jsonCall.sink[i].elementName, jsonCall.sink[i].elementType}}
NeedsLowering(e) ==
  ~Nullish(e) /\ Field(e, KEY_METHOD).t = "string" /\ toLowerCase(Field(e, KEY_METHOD).s) # Field(e, KEY_METHOD).s
UpperDiags == SelectSeq(jsonCall.diags, LAMBDA d : d.kind = "method_upper")
MethodDiags == SelectSeq(jsonCall.diags, LAMBDA d : d.kind \in {"method_upper", "method_type"})
ChangedEntries == SelectSeq(InputActions.items, LAMBDA f : NeedsLowering(f.v))

\* C10: for an actions object handed to the sink, every string method is
\* lowercase, there is exactly one Warn per entry whose method was changed by
\* lowercasing, in order, and none for an entry whose method was lowercase.
C10_MethodLowercased ==
  (CardDone /\ jsonCall.input.lit.kind = "value" /\ ~Nullish(jsonCall.input.lit.val)
     /\ IsPlainObject(InputActions) /\ ActionsDelivered # {}) =>
    /\ \A i \in ActionsDelivered :
         \A j \in DOMAIN jsonCall.sink[i].content.items :
           LET m == Field(jsonCall.sink[i].content.items[j].v, KEY_METHOD)
           IN /\ m.t = "string" => toLowerCase(m.s) = m.s
              /\ m.t = Field(InputActions.items[j].v, KEY_METHOD).t
    /\ Len(UpperDiags) = Len(ChangedEntries)
    /\ \A k \in DOMAIN UpperDiags :
         /\ UpperDiags[k].sev = "WARNING"
         /\ UpperDiags[k].name = Field(ChangedEntries[k].v, KEY_METHOD).s
    /\ (\A j \in DOMAIN InputActions.items :
          LET m == Field(InputActions.items[j].v, KEY_METHOD)
          IN m.t # "string" \/ toLowerCase(m.s) = m.s) => UpperDiags = <<>>
    /\ (\A j \in DOMAIN InputActions.items :
          LET m == Field(InputActions.items[j].v, KEY_METHOD)
          IN m.t = "string" /\ toLowerCase(m.s) = m.s) => MethodDiags = <<>>

\* C10 witness: an entry with the method "S" was delivered as "s"
C10_Witness ==
  /\ CardDone /\ ActionsDelivered # {} /\ IsPlainObject(InputActions)
  /\ \E j \in DOMAIN InputActions.items : NeedsLowering(InputActions.items[j].v)

----------------------------------------------------------------------------
(* replacePropsArray applied to a props list and then to its own result *)

PropItems == {JStr(PropA), JStr(PropB), JStr(KEY_DEFAULT), JNum(5)}
PropLists == UNION {{JArr(l) : l \in [1..n -> PropItems]} : n \in 0..MaxProps}

NoPropsResult == [val |-> JUndef, diags |-> <<>>, threw |-> FALSE]

InitProps ==
  /\ LoaderIdle
  /\ markup = [f \in Files |-> <<>>]
  /\ abilityType = "page"
  /\ deviceLevel = "card"
  /\ logLevel = 1
  /\ logCall = NoLogCall
  /\ jsonCall = NoJsonCall
  /\ helperCall \in {[op |-> "props", input |-> l, step |-> 0, first |-> NoPropsResult,
                      second |-> NoPropsResult] : l \in PropLists}

\* replacePropsArray(props)
NormalizeProps ==
  /\ helperCall.op = "props" /\ helperCall.step = 0
  /\ helperCall' = [helperCall EXCEPT !.step = 1, !.first = replacePropsArray(helperCall.input, <<>>)]
  /\ UNCHANGED <<loaderVars, deviceLevel, logLevel, logCall, jsonCall>>

\* replacePropsArray(replacePropsArray(props))
NormalizeAgain ==
  /\ helperCall.op = "props" /\ helperCall.step = 1
  /\ helperCall' = [helperCall EXCEPT !.step = 2, !.second = replacePropsArray(helperCall.first.val, <<>>)]
  /\ UNCHANGED <<loaderVars, deviceLevel, logLevel, logCall, jsonCall>>

NextProps == NormalizeProps \/ NormalizeAgain

SpecProps == InitProps /\ [][NextProps]_vars

AllStrings(l) == \A i \in DOMAIN l.items : l.items[i].t = "string"

\* C11: for a props list of strings, replacePropsArray maps each listed name
\* (and no other name) to {default: ''}; applied to that result it returns
\* the same object and hands no diagnostic to logWarn.
C11_PropsIdempotent ==
  (helperCall.op = "props" /\ helperCall.step >= 1 /\ AllStrings(helperCall.input)) =>
    /\ helperCall.first.val.t = "object"
    /\ ~helperCall.first.threw
    /\ \A i \in DOMAIN helperCall.input.items :
         /\ HasOwn(helperCall.first.val, helperCall.input.items[i].s)
         /\ Field(helperCall.first.val, helperCall.input.items[i].s) = EmptyDefault
    /\ \A j \in DOMAIN helperCall.first.val.items :
         \E i \in DOMAIN helperCall.input.items :
           helperCall.input.items[i].s = helperCall.first.val.items[j].k
    /\ helperCall.step = 2 =>
         /\ helperCall.second.val = helperCall.first.val
         /\ helperCall.second.diags = <<>>
         /\ ~helperCall.second.threw

\* C11 witness: a list of two distinct names has been normalized twice
C11_Witness ==
  /\ helperCall.op = "props" /\ helperCall.step = 2 /\ AllStrings(helperCall.input)
  /\ Len(helperCall.first.val.items) >= 2

----------------------------------------------------------------------------
(* The rewriting step applied to a config text *)

InitRewrite ==
  /\ LoaderIdle
  /\ markup = [f \in Files |-> <<>>]
  /\ abilityType = "page"
  /\ deviceLevel = "card"
  /\ logLevel = 1
  /\ logCall = NoLogCall
  /\ jsonCall = NoJsonCall
  /\ helperCall \in {[op |-> "rewrite", source |-> Flatten(l), done |-> FALSE, out |-> <<>>] :
                       l \in PieceLists}

\* lines 56-74 of parseCard
RewriteText ==
  /\ helperCall.op = "rewrite" /\ ~helperCall.done
  /\ helperCall' = [helperCall EXCEPT !.done = TRUE, !.out = rewrite(helperCall.source)]
  /\ UNCHANGED <<loaderVars, deviceLevel, logLevel, logCall, jsonCall>>

NextRewrite == RewriteText

SpecRewrite == InitRewrite /\ [][NextRewrite]_vars

Rewritten == helperCall.op = "rewrite" /\ helperCall.done

\* the end of the identifier path started at i: word characters, and dots
\* that a word character follows
RECURSIVE PathEnd(_, _)
PathEnd(s, i) ==
  IF i + 1 <= Len(s) /\ IsWord(s[i + 1]) THEN PathEnd(s, i + 1)
  ELSE IF i + 2 <= Len(s) /\ s[i + 1] = "." /\ IsWord(s[i + 2]) THEN PathEnd(s, i + 2)
  ELSE i

\* the text the binding rewriting is said to produce: outside a quoted
\* literal `this.<path>` becomes "{{<path>}}", every other character stays
RECURSIVE BindingText(_, _, _)
BindingText(s, i, quote) ==
  IF i > Len(s) THEN <<>>
  ELSE IF quote = "" /\ MatchAt(s, i, THIS_DOT) /\ i + Len(THIS_DOT) <= Len(s)
          /\ IsWord(s[i + Len(THIS_DOT)])
    THEN LET e == PathEnd(s, i + Len(THIS_DOT))
         IN <<DQ, "{", "{">> \o RemoveThis(SubSeq(s, i, e)) \o <<"}", "}", DQ>>
            \o BindingText(s, e + 1, quote)
  ELSE IF quote = "" /\ s[i] \in {DQ, SQ} THEN <<s[i]>> \o BindingText(s, i + 1, s[i])
  ELSE IF quote # "" /\ s[i] = quote THEN <<s[i]>> \o BindingText(s, i + 1, "")
  ELSE <<s[i]>> \o BindingText(s, i + 1, quote)

\* quotes are paired on every line, and no event expression is in the text
RECURSIVE QuotesPaired(_, _, _)
QuotesPaired(s, i, quote) ==
  IF i > Len(s) THEN quote = ""
  ELSE IF s[i] = NL THEN quote = "" /\ QuotesPaired(s, i + 1, "")
  ELSE IF quote = "" /\ s[i] \in {DQ, SQ} THEN QuotesPaired(s, i + 1, s[i])
  ELSE IF quote # "" /\ s[i] = quote THEN QuotesPaired(s, i + 1, "")
  ELSE QuotesPaired(s, i + 1, quote)

HasThis(s) == \E i \in DOMAIN s : MatchAt(s, i, THIS_DOT)
HasEvent(s) == \E i \in DOMAIN s : s[i] = "$"
ThisWellFormed(s) ==
  \A i \in DOMAIN s : MatchAt(s, i, THIS_DOT) =>
    /\ i + Len(THIS_DOT) <= Len(s) /\ IsWord(s[i + Len(THIS_DOT)])
    /\ i > 1 => ~IsWord(s[i - 1])

\* C12: every this.<ident...> occurrence outside a quoted literal is replaced
\* by "{{<expr>}}" without the this. prefix, a comma right after it stays
\* after the closing quote, and occurrences inside a quoted literal stay.
C12_BindingRewriting ==
  (Rewritten /\ ~HasEvent(helperCall.source) /\ ThisWellFormed(helperCall.source)
     /\ QuotesPaired(helperCall.source, 1, "")) =>
    helperCall.out = BindingText(helperCall.source, 1, "")

\* the characters that take no part in any of the three patterns
IsFiller(c) == c \in {" ", ",", "}", NL}

\* s[i..j] is $event.<ident> and the ident ends at j
IsEventAt(s, i, j) ==
  /\ MatchAt(s, i, EVENT_DOT)
  /\ j >= i + Len(EVENT_DOT) /\ j <= Len(s)
  /\ \A k \in (i + Len(EVENT_DOT))..j : IsWord(s[k])
  /\ j + 1 <= Len(s) => ~IsWord(s[j + 1])

\* the text is filler, one event expression s[i..j] in quotes q, filler
QuotedEventAt(s, i, j, q) ==
  /\ i > 1 /\ j < Len(s) /\ IsEventAt(s, i, j)
  /\ s[i - 1] = q /\ s[j + 1] = q
  /\ \A k \in DOMAIN s : (k < i - 1 \/ k > j + 1) => IsFiller(s[k])

\* the text is filler, one bare event expression s[i..j], filler
BareEventAt(s, i, j) ==
  /\ IsEventAt(s, i, j)
  /\ \A k \in DOMAIN s : (k < i \/ k > j) => IsFiller(s[k])

Wrapped(s, i, j) == SubSeq(s, 1, i - 1) \o <<DQ>> \o SubSeq(s, i, j) \o <<DQ>> \o SubSeq(s, j + 1, Len(s))

\* C13 as stated: a quoted event literal appears with its quotes stripped,
\* and a bare $event.<ident> appears wrapped in double quotes.
C13_EventQuotesStripped ==
  Rewritten =>
    \A i, j \in DOMAIN helperCall.source :
      /\ \A q \in {DQ, SQ} :
           QuotedEventAt(helperCall.source, i, j, q) =>
             helperCall.out = SubSeq(helperCall.source, 1, i - 2)
                                \o SubSeq(helperCall.source, i, j)
                                \o SubSeq(helperCall.source, j + 2, Len(helperCall.source))
      /\ BareEventAt(helperCall.source, i, j) =>
           helperCall.out = Wrapped(helperCall.source, i, j)

\* C13 amended: an event expression written bare, in double quotes or in
\* single quotes appears in double quotes in the produced text (the second
\* pass puts back the quotes the first pass stripped), and every
\* $event.<ident> of the produced text stands between double quotes.
C13_EventDoubleQuoted ==
  Rewritten =>
    /\ \A i, j \in DOMAIN helperCall.source :
         /\ \A q \in {DQ, SQ} :
              QuotedEventAt(helperCall.source, i, j, q) =>
                helperCall.out = SubSeq(helperCall.source, 1, i - 2) \o <<DQ>>
                                   \o SubSeq(helperCall.source, i, j) \o <<DQ>>
                                   \o SubSeq(helperCall.source, j + 2, Len(helperCall.source))
         /\ BareEventAt(helperCall.source, i, j) =>
              helperCall.out = Wrapped(helperCall.source, i, j)
    /\ \A i, j \in DOMAIN helperCall.out :
         IsEventAt(helperCall.out, i, j) =>
           /\ i > 1 /\ helperCall.out[i - 1] = DQ
           /\ j < Len(helperCall.out) /\ helperCall.out[j + 1] = DQ

\* C13 witness: a double-quoted event literal went through the rewriting
C13_Witness ==
  /\ Rewritten
  /\ \E i, j \in DOMAIN helperCall.source : QuotedEventAt(helperCall.source, i, j, DQ)

----------------------------------------------------------------------------
(* consumeMap applied to a generated text and a consumed map *)

InitMap ==
  /\ LoaderIdle
  /\ markup = [f \in Files |-> <<>>]
  /\ abilityType = "page"
  /\ deviceLevel = "rich"
  /\ logLevel = 1
  /\ logCall = NoLogCall
  /\ jsonCall = NoJsonCall
  /\ helperCall \in {[op |-> "map", target |-> t, smc |-> m, done |-> FALSE, result |-> NoMap] :
                       t \in Targets, m \in ConsumedMaps}

\* consumeMap(loader, target, map)
ConsumeMap ==
  /\ helperCall.op = "map" /\ ~helperCall.done
  /\ helperCall' = [helperCall EXCEPT !.done = TRUE,
                                      !.result = consumeMap(helperCall.target, helperCall.smc)]
  /\ UNCHANGED <<loaderVars, deviceLevel, logLevel, logCall, jsonCall>>

NextMap == ConsumeMap

SpecMap == InitMap /\ [][NextMap]_vars

\* the number N of lines of the generated text
LineCount(target) == 1 + Cardinality({i \in DOMAIN target : target[i] = NL})
MappedLines(target, smc) == {l \in 1..LineCount(target) : l \in DOMAIN smc /\ smc[l] # NoPos}

\* C14: the mapping table has exactly one entry, keyed by the generated line,
\* for each line whose (line, 0) has a mapping in the consumed map, no other
\* entry, and the original and generated lists are as long as the table.
C14_SparseMap ==
  (helperCall.op = "map" /\ helperCall.done) =>
    LET r == helperCall.result
        mapped == MappedLines(helperCall.target, helperCall.smc)
    IN /\ \A l \in mapped :
            {m \in r.mapping : m.key = MapKey(l, 0)}
              = {[key |-> MapKey(l, 0), line |-> helperCall.smc[l].line,
                  column |-> helperCall.smc[l].column]}
       /\ \A m \in r.mapping : \E l \in mapped : m.key = MapKey(l, 0)
       /\ Cardinality(r.mapping) = Cardinality(mapped)
       /\ Len(r.original) = Cardinality(r.mapping)
       /\ Len(r.generated) = Cardinality(r.mapping)

\* C14 witness: a text of three lines or more, some mapped and some not
C14_Witness ==
  /\ helperCall.op = "map" /\ helperCall.done
  /\ LineCount(helperCall.target) >= 3
  /\ MappedLines(helperCall.target, helperCall.smc) # {}
  /\ MappedLines(helperCall.target, helperCall.smc) # 1..LineCount(helperCall.target)
  /\ Cardinality(helperCall.result.mapping) >= 1

----------------------------------------------------------------------------
(* getLoaderString called between the loader calls of a build *)

\* the files of the build in this specification
ChainMarkup ==
  [f \in Files |-> IF f = NameX \o <<EXT>> THEN <<TagParent>>
                   ELSE IF f = NameParent \o <<EXT>> THEN <<TagDiv>>
                   ELSE <<>>]

NoDescriptor == <<"none">>

InitChain ==
  /\ LoaderIdle
  /\ markup = ChainMarkup
  /\ abilityType \in {"page", "form"}
  /\ deviceLevel \in {"rich", "lite", "card"}
  /\ logLevel = 1
  /\ logCall = NoLogCall
  /\ jsonCall = NoJsonCall
  /\ helperCall \in {[op |-> "chain", manifestExists |-> m, type |-> t, config |-> c,
                      ncalls |-> 0, first |-> NoDescriptor, returned |-> NoDescriptor] :
                       m \in BOOLEAN, t \in ChainTypes, c \in ChainConfigs}

\* getLoaderString(type, config) with the kind and options of this behaviour
ResolveChain ==
  /\ helperCall.op = "chain" /\ helperCall.ncalls < MaxChainCalls
  /\ LET r == getLoaderString(helperCall.type, helperCall.config, helperCall.manifestExists)
     IN helperCall' = [helperCall EXCEPT !.ncalls = @ + 1, !.returned = r,
                                         !.first = IF helperCall.ncalls = 0 THEN r ELSE @]
  /\ UNCHANGED <<loaderVars, deviceLevel, logLevel, logCall, jsonCall>>

NextChain == CompileEntry \/ CompileChild \/ ResolveChain

SpecChain == InitChain /\ [][NextChain]_vars

----------------------------------------------------------------------------
(* The wrapper of a page against the wrapper of the application *)

\* the shape of a wrapper: its registration block, bootstrap call and options
\* object, in the order of the output
ShapeOf(kind) ==
  CASE kind \in {"define", "app_define"} -> "register"
    [] kind \in {"bootstrap", "app_bootstrap"} -> "bootstrap"
    [] kind \in {"options", "app_options"} -> "options"
    [] OTHER -> "none"

WrapperShape(out) ==
  LET w == SelectSeq(out, LAMBDA t : ShapeOf(t.kind) # "none")
  IN [i \in DOMAIN w |-> ShapeOf(w[i].kind)]

\* C17: in each mode the page wrapper has the shape of the application
\* wrapper of that mode: a registration block for Rich and Card, then a
\* bootstrap call exactly when the unit is an entry; for Lite a flat options
\* object and no bootstrap call.
C17_PageWrapperMirrorsApp ==
  (Compiled /\ ~last.reserved) =>
    /\ WrapperShape(last.out) = WrapperShape(loadAppWrapper(last.name, last.op = "entry"))
    /\ deviceLevel \in {"rich", "card"} =>
         WrapperShape(last.out) = <<"register">> \o (IF last.op = "entry" THEN <<"bootstrap">> ELSE <<>>)
    /\ deviceLevel = "lite" => WrapperShape(last.out) = <<"options">>

----------------------------------------------------------------------------
(* The sections the card-literal loader hands to the sink *)

\* the section a sink call carries: its elementType for an element's asset,
\* its type for a page's own asset; the 'init' call carries none
SectionOf(call) == IF call.elementType # <<>> THEN call.elementType ELSE call.type
SectionCalls == SelectSeq(jsonCall.sink, LAMBDA c : c.type # KEY_INIT)
Sections == [i \in DOMAIN SectionCalls |-> SectionOf(SectionCalls[i])]
OfElement == mkJsonFiles(jsonCall.input) # <<>>
NormalizedOk == CardDone /\ ~jsonCall.threw

\* C16 as stated: the sections are actions, data, apiVersion and props for
\* JSON/script text, styles for style text and template for markup text, for
\* a page's own assets and for an element's assets alike.
C16_SectionSplit ==
  NormalizedOk =>
    /\ IsConfigExt(jsonCall.input.ext) =>
         Sections = <<KEY_ACTIONS, KEY_DATA, KEY_APIVERSION, KEY_PROPS>>
    /\ IsStyleExt(jsonCall.input.ext) => Sections = <<KEY_STYLES>>
    /\ jsonCall.input.ext = EXT => Sections = <<KEY_TEMPLATE>>

\* C16 amended: JSON/script text of an included element yields actions, data,
\* apiVersion and props; JSON/script text of an entry page yields actions,
\* data and apiVersion only; style text yields styles, markup text template.
C16_SectionSplitByOwner ==
  NormalizedOk =>
    /\ (IsConfigExt(jsonCall.input.ext) /\ OfElement) =>
         Sections = <<KEY_ACTIONS, KEY_DATA, KEY_APIVERSION, KEY_PROPS>>
    /\ (IsConfigExt(jsonCall.input.ext) /\ ~OfElement) =>
         Sections = <<KEY_ACTIONS, KEY_DATA, KEY_APIVERSION>>
    /\ IsStyleExt(jsonCall.input.ext) => Sections = <<KEY_STYLES>>
    /\ jsonCall.input.ext = EXT => Sections = <<KEY_TEMPLATE>>
    /\ \A i \in DOMAIN SectionCalls :
         /\ OfElement => SectionCalls[i].elementName = mkJsonFiles(jsonCall.input)
         /\ ~OfElement => SectionCalls[i].elementName = Sections[i]

\* C16 witness: the config of an entry page with all four keys was delivered
C16_Witness ==
  /\ NormalizedOk /\ IsConfigExt(jsonCall.input.ext) /\ ~OfElement
  /\ jsonCall.input.lit.kind = "value" /\ IsPlainObject(jsonCall.input.lit.val)
  /\ JTruthy(Field(jsonCall.input.lit.val, KEY_PROPS))
  /\ Len(SectionCalls) = 3

----------------------------------------------------------------------------
(* Failures of validation in the card-literal loader *)

HasErrorDiag(diags) == \E i \in DOMAIN diags : diags[i].sev = "ERROR"
OnlyWarnDiags(diags) == \A i \in DOMAIN diags : diags[i].sev = "WARNING"
EvaluatedConfig ==
  /\ CardDone /\ IsConfigExt(jsonCall.input.ext)
  /\ jsonCall.input.lit.kind = "value" /\ IsPlainObject(jsonCall.input.lit.val)

\* the number of sections the asset has for its owner
SectionCount ==
  IF IsConfigExt(jsonCall.input.ext) THEN (IF OfElement THEN 4 ELSE 3) ELSE 1

\* C18: for a config literal that evaluates to an object, whatever the shapes
\* of props, actions and data, validation hands only Warn diagnostics to
\* logWarn, never an Error, and every section of the asset reaches the sink.
C18_ValidationNeverFatal ==
  EvaluatedConfig =>
    /\ ~HasErrorDiag(jsonCall.diags)
    /\ OnlyWarnDiags(jsonCall.diags)
    /\ Len(SectionCalls) = SectionCount

\* C20: when the card-literal loader reports an Error for an asset no section
\* of the asset has reached the sink; the sink gets every section or none.
C20_SinkAllOrNothing ==
  CardDone =>
    /\ HasErrorDiag(jsonCall.diags) => SectionCalls = <<>>
    /\ Len(SectionCalls) \in {0, SectionCount}

----------------------------------------------------------------------------
(* Names and parent links in the component graph *)

\* C19: a collision is reported for a name only if an equal name, ignoring
\* case, was reserved earlier in that scope (a parent link is never read as
\* a reserved name), and a reserved name is never read as a parent link when
\* the scope of a unit is resolved.
C19_NamesAndLinksApart ==
  Compiled =>
    /\ \A i \in DOMAIN last.regs :
         last.regs[i].collided =>
           \E n \in last.regs[i].seen : toLowerCase(n) = toLowerCase(last.regs[i].name)
    /\ last.grand # True

----------------------------------------------------------------------------
(* Compiling a unit again, and a well-formed config *)

\* C21: a loader call that repeats the call before it (same unit, same
\* query, unchanged files and environment) produces the same output and the
\* same diagnostics as that call.
C21_RecompileIdempotent ==
  [][(last.op # "none" /\ last'.op = last.op /\ last'.path = last.path /\ last'.req = last.req)
       => (last'.out = last.out /\ last'.diags = last.diags)]_vars

WellFormedActions(a) ==
  /\ IsPlainObject(a)
  /\ \A i \in DOMAIN a.items :
       LET m == Field(a.items[i].v, KEY_METHOD)
       IN IsPlainObject(a.items[i].v) /\ m.t = "string" /\ toLowerCase(m.s) = m.s

WellFormedProps(p) == p.t = "array" /\ \A i \in DOMAIN p.items : p.items[i].t = "string"

\* C22: a JSON/script-kind config whose actions is an object of entries with
\* lowercase string methods, whose data is a plain object, whose apiVersion
\* is a string or number and whose props is a list of strings raises no
\* diagnostic.
C22_WellFormedSilent ==
  (EvaluatedConfig
     /\ WellFormedActions(Field(jsonCall.input.lit.val, KEY_ACTIONS))
     /\ IsPlainObject(Field(jsonCall.input.lit.val, KEY_DATA))
     /\ Field(jsonCall.input.lit.val, KEY_APIVERSION).t \in {"string", "number"}
     /\ WellFormedProps(Field(jsonCall.input.lit.val, KEY_PROPS))) =>
    jsonCall.diags = <<>>

====
